---- MODULE Spec2Model ----
(***************************************************************************)
(* Model of the Notion site proxy worker (src/worker/worker.js): domain    *)
(* configuration resolution with its process-wide cache, the derived       *)
(* slug/page-id indices, and the request router of fetchAndApply.          *)
(*                                                                         *)
(* JavaScript strings are sequences of one-character strings, so that      *)
(* slice, startsWith, endsWith and the regular expressions of the source   *)
(* are computed and not tabulated.  A JavaScript value is a record         *)
(* [t, s]: its type tag and its string conversion.  A JavaScript object    *)
(* is the sequence of its own properties [k, v] in creation order.         *)
(***************************************************************************)
EXTENDS Integers, Sequences, FiniteSets, TLC

VARIABLES
    store,         \* DOMAINS_CONFIG: the KV namespace, key -> raw text
    cache,         \* domainConfigCache: Map, key -> processed config
    manualConfig,  \* the manualConfig constant of the deployment
    procs,         \* the requests in flight, one record per fetch event
    last,          \* the most recently completed request and its response
    hops,          \* redirects the client has followed for the last request
    browser        \* the visitor's tab: the script's config, location, history

vars == <<store, cache, manualConfig, procs, last, hops, browser>>

(* ------------------------------ bounds -------------------------------- *)

\* Concurrent fetch events in the cache specification.
NumProcs == 2
\* Entries of a declared slug mapping in the configuration specification.
MaxEntries == 2
\* Redirects a client follows before giving up.
MaxHops == 2
\* The longest session history of the visitor's tab.
MaxHistory == 3

(* ----------------------------- strings -------------------------------- *)

RECURSIVE Rep(_, _)
Rep(s, n) == IF n = 0 THEN <<>> ELSE s \o Rep(s, n - 1)

StartsWith(s, p) == Len(s) >= Len(p) /\ SubSeq(s, 1, Len(p)) = p

EndsWith(s, p) == Len(s) >= Len(p) /\ SubSeq(s, Len(s) - Len(p) + 1, Len(s)) = p

\* String.prototype.slice(1)
Slice1(s) == IF Len(s) = 0 THEN <<>> ELSE Tail(s)

Digits == {"0", "1", "2", "3", "4", "5", "6", "7", "8", "9"}

HexLetters == {"a", "b", "c", "d", "e", "f", "A", "B", "C", "D", "E", "F"}

DigitVal(c) ==
    CASE c = "0" -> 0 [] c = "1" -> 1 [] c = "2" -> 2 [] c = "3" -> 3
      [] c = "4" -> 4 [] c = "5" -> 5 [] c = "6" -> 6 [] c = "7" -> 7
      [] c = "8" -> 8 [] c = "9" -> 9

RECURSIVE ToNum(_)
ToNum(s) == IF Len(s) = 0 THEN 0
            ELSE 10 * ToNum(SubSeq(s, 1, Len(s) - 1)) + DigitVal(s[Len(s)])

WWW == <<"w", "w", "w", ".">>
ExCom == <<"e", "x", ".", "c", "o", "m">>
Slash == <<"/">>

(* -------------------------- JavaScript values ------------------------- *)

Str(s) == [t |-> "str", s |-> s]
Num(s) == [t |-> "num", s |-> s]
Null == [t |-> "null", s |-> <<"n", "u", "l", "l">>]
Undefined == [t |-> "undefined", s |-> <<"undefined">>]
\* A method inherited from Object.prototype, e.g. ({}).constructor.
ProtoFn == [t |-> "function", s |-> <<"function Object() { [native code] }">>]

\* ToBoolean
Truthy(v) ==
    CASE v.t = "str" -> v.s # <<>>
      [] v.t = "num" -> v.s # <<"0">>
      [] v.t = "null" -> FALSE
      [] v.t = "undefined" -> FALSE
      [] OTHER -> TRUE

\* Property names every plain object inherits from Object.prototype.
ObjectPrototypeKeys ==
    { <<"c", "o", "n", "s", "t", "r", "u", "c", "t", "o", "r">>,
      <<"t", "o", "S", "t", "r", "i", "n", "g">>,
      <<"v", "a", "l", "u", "e", "O", "f">> }

ObjKeys(o) == {o[i].k : i \in 1..Len(o)}

ObjOwn(o, k) == (CHOOSE i \in 1..Len(o) : o[i].k = k)

\* o[k] on a plain object: own property, else the prototype chain.
ObjGet(o, k) ==
    IF k \in ObjKeys(o) THEN o[ObjOwn(o, k)].v
    ELSE IF k \in ObjectPrototypeKeys THEN ProtoFn
    ELSE Undefined

\* o[k] = v: an existing own property keeps its position.
ObjSet(o, k, v) ==
    IF k \in ObjKeys(o)
    THEN [o EXCEPT ![ObjOwn(o, k)] = [k |-> k, v |-> v]]
    ELSE Append(o, [k |-> k, v |-> v])

\* An "array index" property name: a canonical numeric string below 2^32 - 1.
IsArrayIndex(k) ==
    /\ Len(k) >= 1
    /\ Len(k) <= 9
    /\ \A i \in 1..Len(k) : k[i] \in Digits
    /\ (Len(k) > 1 => k[1] # "0")

RECURSIVE SortIdx(_)
\* The array-index properties of a set of properties, ascending.
SortIdx(S) ==
    IF S = {} THEN <<>>
    ELSE LET m == CHOOSE e \in S : \A f \in S : ToNum(e.k) <= ToNum(f.k)
         IN <<m>> \o SortIdx(S \ {m})

RECURSIVE SelectProps(_, _)
SelectProps(o, idx) ==
    IF Len(o) = 0 THEN <<>>
    ELSE (IF IsArrayIndex(o[1].k) = idx THEN <<o[1]>> ELSE <<>>)
         \o SelectProps(Tail(o), idx)

\* Mutant: the entries in creation order, array indices not moved first.
ObjectEntries_CreationOrder(o) == o

\* Object.entries(o): OrdinaryOwnPropertyKeys order, array indices first in
\* ascending numeric order, then the other names in creation order.
ObjectEntries(o) ==
    SortIdx({o[i] : i \in {j \in 1..Len(o) : IsArrayIndex(o[j].k)}})
    \o SelectProps(o, FALSE)

RECURSIVE ParseObject(_)
\* JSON.parse of an object literal given as its members in text order: a
\* repeated name overwrites the earlier value and keeps the earlier position.
ParseObject(decl) ==
    IF Len(decl) = 0 THEN <<>>
    ELSE CHOOSE o \in
            {ObjSet(rest, decl[Len(decl)].k, decl[Len(decl)].v) :
                rest \in {ParseObject(SubSeq(decl, 1, Len(decl) - 1))}} : TRUE

(* ------------------- configuration values and text -------------------- *)

\* What DOMAINS_CONFIG holds under a key: a text.  kind says what JSON.parse
\* makes of it; decl are the members of the SLUG_TO_PAGE literal in text order.
RawText(kind, hasMap, decl, prim) ==
    [kind |-> kind, hasMap |-> hasMap, decl |-> decl, prim |-> prim]

\* DOMAINS_CONFIG.get of a missing key, and manualConfig = undefined.
NoRaw == RawText("none", FALSE, <<>>, Undefined)
RawEmpty == RawText("empty", FALSE, <<>>, Undefined)
RawGarbage == RawText("garbage", FALSE, <<>>, Undefined)
RawNull == RawText("null", FALSE, <<>>, Null)
RawPrim(v) == RawText("prim", FALSE, <<>>, v)
RawNoMap == RawText("object", FALSE, <<>>, Undefined)
RawObject(decl) == RawText("object", TRUE, decl, Undefined)

\* A value getDomainConfig handles or returns: an object with its fields, or
\* a primitive (t, s) that has no fields.
ConfigValue(t, s, domain, hasMap, s2p, hasDerived, p2s, slugs, pages) ==
    [t |-> t, s |-> s, MY_DOMAIN |-> domain, hasMap |-> hasMap,
     SLUG_TO_PAGE |-> s2p, hasDerived |-> hasDerived,
     PAGE_TO_SLUG |-> p2s, slugs |-> slugs, pages |-> pages]

PrimConfig(v) == ConfigValue(v.t, v.s, <<>>, FALSE, <<>>, FALSE, <<>>, <<>>, <<>>)

NullConfig == PrimConfig(Null)

\* JSON.parse(text) where it does not throw.
JsonParse(raw) ==
    IF raw.kind = "object"
    THEN ConfigValue("object", <<>>, <<>>, raw.hasMap, ParseObject(raw.decl),
                     FALSE, <<>>, <<>>, <<>>)
    ELSE PrimConfig(raw.prim)

JsonParseThrows(raw) == raw.kind \in {"garbage", "empty", "none"}

\* config.MY_DOMAIN = cleanHostname: a TypeError on null, ignored on a
\* primitive (the worker script is not strict), a field on an object.
SetDomain(config, cleanHostname) ==
    IF config.t = "object" THEN [config EXCEPT !.MY_DOMAIN = cleanHostname]
    ELSE config

SetDomainThrows(config) == config.t \in {"null", "undefined"}

\* Mutant: the typeof test of line 106 dropped.
ValidPageId_AnyTruthy(pageId) == Truthy(pageId)

\* The test of line 106.
ValidPageId(pageId) == Truthy(pageId) /\ pageId.t = "str"

RECURSIVE ForEachEntry(_, _)
\* The forEach callback of lines 105-111 applied to the entries in order.
ForEachEntry(config, entries) ==
    IF Len(entries) = 0 THEN config
    ELSE LET slug == entries[1].k
             pageId == entries[1].v
             next == IF ValidPageId(pageId)
                     THEN [config EXCEPT
                             !.slugs = Append(@, slug),
                             !.pages = Append(@, pageId.s),
                             !.PAGE_TO_SLUG = ObjSet(@, pageId.s, Str(slug))]
                     ELSE config
         IN ForEachEntry(next, Tail(entries))

\* Lines 99-114.  The config and the entries of its mapping are values
\* computed once (c, entries) before the callback runs over them.
processConfigurationObject(config) ==
    CHOOSE processed \in
        {IF c.t = "object"
         THEN ForEachEntry([c EXCEPT !.hasDerived = TRUE, !.PAGE_TO_SLUG = <<>>,
                                    !.slugs = <<>>, !.pages = <<>>],
                           entries)
         ELSE c :
            c \in {config},
            entries \in {ObjectEntries(IF config.hasMap THEN config.SLUG_TO_PAGE
                                       ELSE <<>>)}} : TRUE

\* Mutant: the hostname is not normalised.
StripWww_Nothing(hostname) == hostname

\* String.prototype.replace(/^www\./, '')
StripWww(hostname) ==
    IF StartsWith(hostname, WWW) THEN SubSeq(hostname, 5, Len(hostname))
    ELSE hostname

\* Mutant: a miss is remembered, the null is stored in the cache.
LoadConfig_CachesMiss(cleanHostname, data, kvThrows) ==
    IF kvThrows \/ data.kind \in {"none", "empty"} \/ JsonParseThrows(data)
       \/ SetDomainThrows(JsonParse(data))
    THEN [cfg |-> NullConfig, cached |-> TRUE]
    ELSE [cfg |-> processConfigurationObject(
                      SetDomain(JsonParse(data), cleanHostname)),
          cached |-> TRUE]

\* Lines 76-91 of getDomainConfig, after DOMAINS_CONFIG.get has answered
\* (data) or thrown (kvThrows): the value returned and whether it is cached.
LoadConfig(cleanHostname, data, kvThrows) ==
    IF kvThrows \/ data.kind \in {"none", "empty"} \/ JsonParseThrows(data)
    THEN [cfg |-> NullConfig, cached |-> FALSE]
    ELSE CHOOSE result \in
            {IF SetDomainThrows(config)
             THEN [cfg |-> NullConfig, cached |-> FALSE]
             ELSE [cfg |-> processConfigurationObject(
                               SetDomain(config, cleanHostname)),
                   cached |-> TRUE] :
                config \in {JsonParse(data)}} : TRUE

\* Line 61: the deployment has a manualConfig.
ManualMode == manualConfig.kind \notin {"none", "null"}

\* Mutant: the copy keeps the domain of the fixed config.
ManualConfigCopy_KeepsDomain(cleanHostname) ==
    processConfigurationObject(
        JsonParse([manualConfig EXCEPT
                     !.decl = ObjectEntries(ParseObject(manualConfig.decl))]))

\* Lines 61-65: JSON.parse(JSON.stringify(manualConfig)) re-creates the
\* properties in enumeration order.
ManualConfigCopy(cleanHostname) ==
    processConfigurationObject(SetDomain(
        JsonParse([manualConfig EXCEPT
                     !.decl = ObjectEntries(ParseObject(manualConfig.decl))]),
        cleanHostname))

MapHas(m, k) == k \in DOMAIN m

MapSet(m, k, v) == [x \in (DOMAIN m) \cup {k} |-> IF x = k THEN v ELSE m[x]]

\* DOMAINS_CONFIG.get(key)
KvGet(key) == IF key \in DOMAIN store THEN store[key] ELSE NoRaw

(* ------------------------ requests and responses ---------------------- *)

Request(host, method, path, hdrs) ==
    [host |-> host, method |-> method, path |-> path, hdrs |-> hdrs]

NoRequest == Request(<<>>, "", <<>>, {})

\* A Response: the handler that built it, status, Content-Type, the body's
\* fixed text, the value interpolated into the body, the Location of a
\* redirect, and the <loc> entries of a sitemap.
Response(handler, status, ctype, body, arg, locHost, locPath, urls) ==
    [handler |-> handler, status |-> status, ctype |-> ctype, body |-> body,
     arg |-> arg, locHost |-> locHost, locPath |-> locPath, urls |-> urls,
     headers |-> {}]

\* A header of a request or a response.
Header(n, v) == [n |-> n, v |-> v]

\* The response with these headers besides its Content-Type and Location.
WithHeaders(resp, hs) == [resp EXCEPT !.headers = hs]

\* Headers.get(name): the value, or null.
HeaderGet(hs, name) ==
    IF \E h \in hs : h.n = name
    THEN Str((CHOOSE h \in hs : h.n = name).v)
    ELSE Null

NoResponse == Response("", 0, "", "", <<>>, <<>>, <<>>, <<>>)

\* config.MY_DOMAIN as a template literal prints it.
DomainOf(config) ==
    IF config.t = "object" THEN config.MY_DOMAIN ELSE Undefined.s

\* Lines 187-190.
NotConfiguredResponse(hostname) ==
    Response("notConfigured", 404, "text/plain",
             "Domain \"<arg>\" not configured", hostname, <<>>, <<>>, <<>>)

\* Mutant: the error leaves fetchAndApply, no response is built.
InternalErrorResponse_Escapes == NoResponse

\* Lines 244-247: the outermost catch.
InternalErrorResponse ==
    Response("internalError", 500, "text/plain",
             "Internal Server Error: <message>", <<>>, <<>>, <<>>, <<>>)

CorsRequestHeaders ==
    {"Origin", "Access-Control-Request-Method", "Access-Control-Request-Headers"}

\* Lines 138-142.
corsHeaders ==
    {Header("Access-Control-Allow-Origin", "*"),
     Header("Access-Control-Allow-Methods", "GET, HEAD, POST, PUT, OPTIONS"),
     Header("Access-Control-Allow-Headers", "Content-Type, Authorization")}

\* Mutant: a preflight is accepted on its Origin alone.
handleCorsPreflightRequest_OriginOnly(request) ==
    IF Truthy(HeaderGet(request.hdrs, "Origin"))
    THEN WithHeaders(Response("cors", 204, "", "", <<>>, <<>>, <<>>, <<>>),
                     corsHeaders)
    ELSE WithHeaders(Response("cors", 405, "", "", <<>>, <<>>, <<>>, <<>>),
                     {Header("Allow", "GET, HEAD, POST, PUT, OPTIONS")})

handleCorsPreflightRequest(request) ==
    LET origin == HeaderGet(request.hdrs, "Origin")
        method == HeaderGet(request.hdrs, "Access-Control-Request-Method")
        headers == HeaderGet(request.hdrs, "Access-Control-Request-Headers")
    IN IF Truthy(origin) /\ Truthy(method) /\ Truthy(headers)
       THEN WithHeaders(Response("cors", 204, "", "", <<>>, <<>>, <<>>, <<>>),
                        corsHeaders)
       ELSE WithHeaders(Response("cors", 405, "", "", <<>>, <<>>, <<>>, <<>>),
                        {Header("Allow", "GET, HEAD, POST, PUT, OPTIONS")})

generateRobotsTxt(config) ==
    Response("robots", 200, "text/plain",
             "User-agent: * Allow: / Sitemap: https://<arg>/sitemap.xml",
             DomainOf(config), <<>>, <<>>, <<>>)

\* Mutant: the root slug gets no entry.
SitemapUrls_SkipsRoot(domain, slugs) ==
    LET named == SelectSeq(slugs, LAMBDA slug : slug # <<>>)
    IN [i \in 1..Len(named) |-> [host |-> domain, path |-> Slash \o named[i]]]

RECURSIVE SitemapUrls(_, _)
\* The map callback of lines 124-127 over the slugs.
SitemapUrls(domain, slugs) ==
    IF Len(slugs) = 0 THEN <<>>
    ELSE <<[host |-> domain,
            path |-> IF slugs[1] = <<>> THEN Slash ELSE Slash \o slugs[1]]>>
         \o SitemapUrls(domain, Tail(slugs))

generateSitemap(config) ==
    SitemapUrls(DomainOf(config),
                IF config.t = "object" /\ config.hasDerived THEN config.slugs
                ELSE <<>>)

generateSitemapResponse(config) ==
    Response("sitemap", 200, "application/xml", "<urlset>", <<>>, <<>>, <<>>,
             generateSitemap(config))

HealthResponse ==
    Response("health", 200, "text/plain", "OK", <<>>, <<>>, <<>>, <<>>)

Redirect301(handler, host, path) ==
    Response(handler, 301, "", "", <<>>, host, path, <<>>)

\* config.SLUG_TO_PAGE[slug] throws a TypeError when SLUG_TO_PAGE is
\* undefined: a config without the field, or a primitive.
SlugLookupThrows(config) == config.t # "object" \/ ~config.hasMap

\* Lines 359-373; NoResponse stands for null.
handleSlugRedirection(path, config) ==
    LET slug == Slice1(path)
        pageId == ObjGet(config.SLUG_TO_PAGE, slug)
    IN IF Truthy(pageId)
       THEN Redirect301("slugRedirect", config.MY_DOMAIN,
                        IF slug = <<>> THEN Slash ELSE Slash \o pageId.s)
       ELSE NoResponse

\* /^[0-9a-f]{32}$/i
notionPageIdPattern(s) ==
    Len(s) = 32 /\ \A i \in 1..Len(s) : s[i] \in Digits \cup HexLetters

Includes(seq, x) == \E i \in 1..Len(seq) : seq[i] = x

\* Lines 381-391; NoResponse stands for null.
handleUnknownPageRedirection(path, config) ==
    LET pathSegment == Slice1(path)
    IN IF notionPageIdPattern(pathSegment) /\ ~Includes(config.pages, pathSegment)
       THEN Redirect301("unknownPage", config.MY_DOMAIN, Slash)
       ELSE NoResponse

AppPrefix == <<"/", "a", "p", "p">>
JsSuffix == <<".", "j", "s">>
ApiPrefix == <<"/", "a", "p", "i">>
RobotsPath == <<"/", "r", "o", "b", "o", "t", "s", ".", "t", "x", "t">>
SitemapPath == <<"/", "s", "i", "t", "e", "m", "a", "p", ".", "x", "m", "l">>
HealthPath == <<"/", "h", "e", "a", "l", "t", "h">>
UnderHealthPath == <<"/", "_", "h", "e", "a", "l", "t", "h">>

\* Mutant: config === null in place of !config.
ConfigMissing_NullOnly(config) == config.t = "null"

\* Line 186: !config
ConfigMissing(config) == ~Truthy(config)

\* Mutant: /health left out of the test of line 211.
IsHealthPath_UnderscoreOnly(path) == path = UnderHealthPath

\* Line 211.
IsHealthPath(path) == path = HealthPath \/ path = UnderHealthPath

Answer(resp) == [async |-> FALSE, handler |-> resp.handler, resp |-> resp]

Await(handler) == [async |-> TRUE, handler |-> handler, resp |-> NoResponse]

\* Lines 186-248 of fetchAndApply, from the resolved config to the response
\* or to the handler that awaits the upstream.
Dispatch(request, hostname, config) ==
    IF ConfigMissing(config) THEN Answer(NotConfiguredResponse(hostname))
    ELSE IF request.method = "OPTIONS"
    THEN Answer(handleCorsPreflightRequest(request))
    ELSE IF request.path = RobotsPath THEN Answer(generateRobotsTxt(config))
    ELSE IF request.path = SitemapPath
    THEN Answer(generateSitemapResponse(config))
    ELSE IF IsHealthPath(request.path) THEN Answer(HealthResponse)
    ELSE IF StartsWith(request.path, AppPrefix) /\ EndsWith(request.path, JsSuffix)
    THEN Await("jsAsset")
    ELSE IF StartsWith(request.path, ApiPrefix) THEN Await("api")
    ELSE IF SlugLookupThrows(config) THEN Answer(InternalErrorResponse)
    ELSE IF handleSlugRedirection(request.path, config) # NoResponse
    THEN Answer(handleSlugRedirection(request.path, config))
    ELSE IF handleUnknownPageRedirection(request.path, config) # NoResponse
    THEN Answer(handleUnknownPageRedirection(request.path, config))
    ELSE Await("html")

\* What the awaited fetch of the upstream can do.
UpstreamOutcomes == {"ok", "notOk", "throws"}

\* Lines 287-314.
handleJavaScriptAssets(outcome) ==
    IF outcome = "ok"
    THEN Response("jsAsset", 200, "application/javascript", "<rewritten>",
                  <<>>, <<>>, <<>>, <<>>)
    ELSE Response("jsAsset", 500, "", "Failed to load JavaScript asset",
                  <<>>, <<>>, <<>>, <<>>)

\* Lines 322-351: the upstream status is passed on.
handleApiRequests(outcome) ==
    IF outcome = "throws"
    THEN Response("api", 500, "", "API request failed", <<>>, <<>>, <<>>, <<>>)
    ELSE Response("api", IF outcome = "ok" THEN 200 ELSE 404, "application/json",
                  "<upstream>", <<>>, <<>>, <<>>, <<>>)

\* Mutant: the message of the error thrown at line 411 is the body.
handleHtmlContent_LeaksStatus(outcome) ==
    IF outcome = "ok"
    THEN Response("html", 200, "text/html", "<enhanced>", <<>>, <<>>, <<>>, <<>>)
    ELSE Response("html", 500, "", "Failed to fetch HTML: <status>",
                  <<>>, <<>>, <<>>, <<>>)

\* Lines 400-425.
handleHtmlContent(outcome) ==
    IF outcome = "ok"
    THEN Response("html", 200, "text/html", "<enhanced>", <<>>, <<>>, <<>>, <<>>)
    ELSE Response("html", 500, "", "Failed to load page content",
                  <<>>, <<>>, <<>>, <<>>)

UpstreamResponse(handler, outcome) ==
    CASE handler = "jsAsset" -> handleJavaScriptAssets(outcome)
      [] handler = "api" -> handleApiRequests(outcome)
      [] OTHER -> handleHtmlContent(outcome)

(* ------------------------------ inputs -------------------------------- *)

PageA == Rep(<<"a", "1">>, 16)
PageB == Rep(<<"b", "2">>, 16)
PageC == Rep(<<"c", "3">>, 16)
PageD == Rep(<<"d", "4">>, 16)
PageAUpper == Rep(<<"A", "1">>, 16)

RootSlug == <<>>
AboutSlug == <<"a", "b", "o", "u", "t">>
ApisSlug == <<"a", "p", "i", "s">>
DraftSlug == <<"d", "r", "a", "f", "t">>
SevenSlug == <<"7">>
TenSlug == <<"1", "0">>
ConstructorSlug == <<"c", "o", "n", "s", "t", "r", "u", "c", "t", "o", "r">>
NoSuchSlug == <<"n", "o", "n", "e">>

Member(k, v) == [k |-> k, v |-> v]

\* A site with a home page, two slugs and an entry without a page id.
DeclSite ==
    <<Member(RootSlug, Str(PageA)), Member(AboutSlug, Str(PageB)),
      Member(ApisSlug, Str(PageD)), Member(DraftSlug, Str(<<>>))>>

\* A site without a root slug.
\* A site without a root slug, one of whose slugs looks like a page id.
DeclNoRoot == <<Member(AboutSlug, Str(PageB)), Member(PageD, Str(PageA))>>

\* Two slugs of one page.
DeclAlias == <<Member(AboutSlug, Str(PageB)), Member(ApisSlug, Str(PageB))>>

RouteTexts ==
    {NoRaw, RawGarbage, RawNull, RawPrim(Num(<<"4", "2">>)), RawPrim(Num(<<"0">>)),
     RawNoMap, RawObject(DeclSite), RawObject(DeclNoRoot)}

RoutePaths ==
    {Slash, RobotsPath, SitemapPath, HealthPath, UnderHealthPath,
     AppPrefix \o JsSuffix, AppPrefix \o <<"l", "e">>, ApiPrefix \o <<"/", "x">>,
     Slash \o ApisSlug, Slash \o AboutSlug, Slash \o DraftSlug,
     Slash \o ConstructorSlug, Slash \o NoSuchSlug,
     Slash \o PageA, Slash \o PageB, Slash \o PageC, Slash \o PageD,
     Slash \o PageAUpper}

RouteHosts == {ExCom, WWW \o ExCom}

\* Paths on which the preflight method is tried.
PreflightPaths == {Slash, RobotsPath, HealthPath, Slash \o AboutSlug, Slash \o PageC}

\* The three headers of a preflight, each absent, empty or with a value.
PreflightHeaders ==
    {{Header(n, IF f[n] = "empty" THEN <<>> ELSE <<"v">>) :
         n \in {m \in CorsRequestHeaders : f[m] # "absent"}} :
     f \in [CorsRequestHeaders -> {"absent", "empty", "value"}]}

RouteRequests ==
    {Request(h, "GET", p, {}) : h \in RouteHosts, p \in RoutePaths}
    \cup {Request(ExCom, "POST", p, {}) : p \in RoutePaths}
    \cup {r \in {Request(ExCom, "OPTIONS", p, hs) :
                    p \in PreflightPaths, hs \in PreflightHeaders} :
            r.path = Slash \/ \A h \in r.hdrs : h.v # <<>>}

(* ----------------------------- processes ------------------------------ *)

Procs == 1..NumProcs

\* A fetch event: where it stands (pc), its request, url.hostname without
\* "www." (hostname), the cache key (clean), the config it got, the handler
\* awaiting the upstream, its store reads (kv) and upstream calls (up), whether
\* the cache answered (hit), whether the store read threw, and the handler
\* whose redirect led the client to this request (via).
Proc(pc, req, hostname, clean, cfg, handler, kv, up, hit, threw, via) ==
    [pc |-> pc, req |-> req, hostname |-> hostname, clean |-> clean, cfg |-> cfg,
     handler |-> handler, kv |-> kv, up |-> up, hit |-> hit, threw |-> threw,
     via |-> via]

IdleProc ==
    Proc("idle", NoRequest, <<>>, <<>>, NullConfig, "", 0, 0, FALSE, FALSE, "")

\* The request the latest step completed, with its response and with what
\* its call of the upstream did (outcome, "none" without a call).
Completed(pr, resp) ==
    [valid |-> TRUE, req |-> pr.req, hostname |-> pr.hostname, clean |-> pr.clean,
     cfg |-> pr.cfg, resp |-> resp, kv |-> pr.kv, up |-> pr.up, hit |-> pr.hit,
     threw |-> pr.threw, via |-> pr.via, outcome |-> "none"]

NoLast ==
    [valid |-> FALSE, req |-> NoRequest, hostname |-> <<>>, clean |-> <<>>,
     cfg |-> NullConfig, resp |-> NoResponse, kv |-> 0, up |-> 0, hit |-> FALSE,
     threw |-> FALSE, via |-> "", outcome |-> "none"]

\* Mutant: the handler calls the upstream a second time.
IssueFetch_Twice(pr, handler) ==
    [pr EXCEPT !.pc = "fetch", !.handler = handler, !.up = pr.up + 2]

\* Lines 289, 337, 404: the handler calls fetch and awaits it.
IssueFetch(pr, handler) ==
    [pr EXCEPT !.pc = "fetch", !.handler = handler, !.up = pr.up + 1]

\* Lines 186-240: with the config in hand, answer or await the upstream.
Proceed(p, pr) ==
    LET d == Dispatch(pr.req, pr.hostname, pr.cfg)
    IN IF d.async
       THEN /\ procs' = [procs EXCEPT ![p] = IssueFetch(pr, d.handler)]
            /\ last' = NoLast
       ELSE /\ procs' = [procs EXCEPT ![p] = IdleProc]
            /\ last' = Completed(pr, d.resp)

\* Mutant: the cache is never consulted.
CacheAnswers_Never(cleanHostname) == FALSE

\* Lines 67-70: the cache answers.
CacheAnswers(cleanHostname) == MapHas(cache, cleanHostname)

\* Lines 179-185 and 56-75: a fetch event up to the first await.
Begin(p, r, via) ==
    LET hostname == StripWww(r.host)
        cleanHostname == StripWww(hostname)
        pr == Proc("kv", r, hostname, cleanHostname, NullConfig, "", 0, 0,
                   FALSE, FALSE, via)
    IN /\ procs[p].pc = "idle"
       /\ IF ManualMode
          THEN Proceed(p, [pr EXCEPT !.cfg = ManualConfigCopy(cleanHostname)])
          ELSE IF CacheAnswers(cleanHostname)
          THEN Proceed(p, [pr EXCEPT !.cfg = cache[cleanHostname], !.hit = TRUE])
          ELSE procs' = [procs EXCEPT ![p] = pr] /\ last' = NoLast
       /\ UNCHANGED <<store, cache, manualConfig, browser>>

\* A visitor's request arrives.
Start(p, r) == Begin(p, r, "") /\ hops' = 0

\* The visitor's client follows the redirect it was just answered with.
Follow(p) ==
    /\ last.valid
    /\ last.resp.status = 301
    /\ hops < MaxHops
    /\ Begin(p, Request(last.resp.locHost, "GET", last.resp.locPath, {}),
             last.resp.handler)
    /\ hops' = hops + 1

\* Lines 75-91: DOMAINS_CONFIG.get answers or throws.
KvReturn(p) ==
    /\ procs[p].pc = "kv"
    /\ \E kvThrows \in BOOLEAN :
         \E res \in {LoadConfig(procs[p].clean, KvGet(procs[p].clean), kvThrows)} :
            /\ cache' = IF res.cached THEN MapSet(cache, procs[p].clean, res.cfg)
                        ELSE cache
            /\ Proceed(p, [procs[p] EXCEPT !.cfg = res.cfg, !.kv = 1,
                                           !.threw = kvThrows])
    /\ UNCHANGED <<store, manualConfig, hops, browser>>

\* The awaited fetch of the upstream answers or throws.
FetchReturn(p) ==
    /\ procs[p].pc = "fetch"
    /\ \E outcome \in UpstreamOutcomes :
         last' = [Completed(procs[p],
                            UpstreamResponse(procs[p].handler, outcome))
                     EXCEPT !.outcome = outcome]
    /\ procs' = [procs EXCEPT ![p] = IdleProc]
    /\ UNCHANGED <<store, cache, manualConfig, hops, browser>>

\* The operator of the site writes or deletes a key of the KV namespace.
StorePut(k, text) ==
    /\ KvGet(k) # text
    /\ store' = MapSet(store, k, text)
    /\ last' = NoLast
    /\ UNCHANGED <<cache, manualConfig, procs, hops, browser>>

StoreDelete(k) ==
    /\ k \in DOMAIN store
    /\ store' = [x \in (DOMAIN store) \ {k} |-> store[x]]
    /\ last' = NoLast
    /\ UNCHANGED <<cache, manualConfig, procs, hops, browser>>

\* getDomainConfig(hostname) run to its end in the current state, the store
\* answering now or throwing: the value it returns.
GetDomainConfigNow(hostname, kvThrows) ==
    LET cleanHostname == StripWww(hostname)
    IN IF ManualMode THEN ManualConfigCopy(cleanHostname)
       ELSE IF CacheAnswers(cleanHostname) THEN cache[cleanHostname]
       ELSE LoadConfig(cleanHostname, KvGet(cleanHostname), kvThrows).cfg

\* Lines 179-184 of fetchAndApply in the current state: the config the
\* request's hostname resolves to and the cache key it is looked up under.
ResolveThroughFetch(host, kvThrows) ==
    LET hostname == StripWww(host)
    IN [cfg |-> GetDomainConfigNow(hostname, kvThrows),
        key |-> StripWww(hostname)]

(* ------------------------------ browser ------------------------------- *)

\* The tab that shows a page served by handleHtmlContent: the config the
\* bootstrap script was generated with (lines 558-561), location.pathname, the
\* session history (the path of each entry, the index of the current one),
\* isInitialized and the document.
\*
\* The document, as the script sees and changes it.  What the page and the
\* visitor bring: root (#notion-app exists when the script runs), web
\* (.notion-topbar: "none", "empty", with a "child", with a "grandchild"),
\* mobile (.notion-topbar-mobile: "none", "empty", with a "child"), saved
\* (localStorage notion-dark-mode: "null" for no item), prefersDark
\* (prefers-color-scheme: dark), theme (the mode of the upstream ThemeStore,
\* "absent" without one), dark (the body's dark class).  What the script adds:
\* ran (the script has run), observing and pending (the MutationObserver and its undelivered records),
\* toggle (the container darkModeToggle is attached to), toggleOk
\* (initializeDarkModeToggle returned true), listeners (click listeners of the
\* toggle), mediaListeners (change listeners of the media query), navWraps and
\* xhrWraps (how often the history methods and XMLHttpRequest open were
\* wrapped), unloaded (beforeunload has fired).
Document(root, web, mobile, saved, prefersDark, theme, dark) ==
    [root |-> root, web |-> web, mobile |-> mobile, saved |-> saved,
     prefersDark |-> prefersDark, theme |-> theme, dark |-> dark,
     ran |-> FALSE, observing |-> FALSE, pending |-> FALSE, toggle |-> "detached",
     toggleOk |-> FALSE, listeners |-> 0, mediaListeners |-> 0,
     navWraps |-> 0, xhrWraps |-> 0, unloaded |-> FALSE]

\* The document when the script has run and the app has not rendered its top
\* bar yet.
BareDocument ==
    [Document(TRUE, "none", "none", "null", FALSE, "absent", FALSE)
        EXCEPT !.ran = TRUE, !.observing = TRUE]

Browser(cfg, path, entries, idx, init) ==
    [cfg |-> cfg, path |-> path, entries |-> entries, idx |-> idx, init |-> init,
     doc |-> BareDocument]

NoBrowser == Browser(NullConfig, <<>>, <<>>, 0, FALSE)

\* String.prototype.slice(-n)
SliceLast(s, n) == IF Len(s) <= n THEN s ELSE SubSeq(s, Len(s) - n + 1, Len(s))

\* Lines 568-570.
getCurrentPageId(b) == SliceLast(b.path, 32)

\* Lines 572-574.
getCurrentSlug(b) == Slice1(b.path)

\* slug === '' ? '/' : '/' + slug
SlugPath(slug) == IF slug = Str(<<>>) THEN Slash ELSE Slash \o slug.s

\* The browser's own history.replaceState and history.pushState.
originalReplaceState(b, url) ==
    [b EXCEPT !.path = url, !.entries[b.idx] = url]

\* A call without a url (<<>>) records the current location.
originalPushState(b, url) ==
    LET recorded == IF url = <<>> THEN b.path ELSE url
    IN [b EXCEPT !.path = recorded,
                 !.entries = Append(SubSeq(b.entries, 1, b.idx), recorded),
                 !.idx = b.idx + 1]

\* Mutant: the override suppresses nothing.
replaceState_PassesAll(b, title, url) == originalReplaceState(b, url)

\* Lines 665-670: the override of history.replaceState.
replaceState(b, title, url) ==
    IF title # "bypass" /\ Includes(b.cfg.slugs, getCurrentSlug(b)) THEN b
    ELSE originalReplaceState(b, url)

\* Mutant: the override rewrites nothing.
pushState_Unchanged(b, url) == originalPushState(b, url)

\* Lines 673-683: the override of history.pushState.
pushState(b, url) ==
    LET pageId == SliceLast(url, 32)
    IN IF url # <<>> /\ Includes(b.cfg.pages, pageId)
       THEN originalPushState(b, SlugPath(ObjGet(b.cfg.PAGE_TO_SLUG, pageId)))
       ELSE originalPushState(b, url)

\* Lines 576-585; overridden says whether history.replaceState is the
\* override by now (initialize calls updateUrlSlug before initializeNavigation).
updateUrlSlug(b, overridden) ==
    LET slug == ObjGet(b.cfg.PAGE_TO_SLUG, getCurrentPageId(b))
    IN IF slug # Undefined /\ b.path # SlugPath(slug)
       THEN IF overridden THEN replaceState(b, "", SlugPath(slug))
            ELSE originalReplaceState(b, SlugPath(slug))
       ELSE b

\* Mutant: the handler does not put the page id back.
PopstateBypass_Skips(b) == b

\* Lines 688-694: what the pre-existing popstate handler finds.
PopstateBypass(b) ==
    LET currentSlug == getCurrentSlug(b)
        pageId == ObjGet(b.cfg.SLUG_TO_PAGE, currentSlug)
    IN IF Includes(b.cfg.slugs, currentSlug) /\ Truthy(pageId)
       THEN replaceState(b, "bypass", Slash \o pageId.s)
       ELSE b

\* Lines 687-699: window.onpopstate, the location being the entry's already.
onpopstate(b) == updateUrlSlug(PopstateBypass(b), TRUE)

\* A change of the toggle's markup or place is a childList mutation below
\* #notion-app when the toggle is attached: the observer queues a record.
ToggleMutated(b) ==
    [b EXCEPT !.doc.pending = @ \/ (b.doc.observing /\ b.doc.toggle # "detached")]

\* Lines 588-605.
enableDarkMode(b) ==
    ToggleMutated([b EXCEPT !.doc.dark = TRUE, !.doc.saved = "true",
                            !.doc.theme = IF @ = "absent" THEN @ ELSE "dark"])

\* Mutant: the light mode is not persisted.
enableLightMode_NoPersist(b) ==
    ToggleMutated([b EXCEPT !.doc.dark = FALSE,
                            !.doc.theme = IF @ = "absent" THEN @ ELSE "light"])

\* Lines 607-622.
enableLightMode(b) ==
    ToggleMutated([b EXCEPT !.doc.dark = FALSE, !.doc.saved = "false",
                            !.doc.theme = IF @ = "absent" THEN @ ELSE "light"])

\* Mutant: a click always switches to the dark mode.
toggleDarkMode_AlwaysDark(b) == enableDarkMode(b)

\* Lines 624-626.
toggleDarkMode(b) == IF b.doc.dark THEN enableLightMode(b) ELSE enableDarkMode(b)

\* Mutant: a stored preference never wins over the OS preference.
InitialModeDark_OsOnly(savedMode, prefersDark) == prefersDark

\* Line 645: savedMode === 'true' || (savedMode === null && prefersDark)
InitialModeDark(savedMode, prefersDark) ==
    savedMode = "true" \/ (savedMode = "null" /\ prefersDark)

\* Mutant: the desktop variant appends to the container itself.
initializeDarkModeToggle_NoChildTest(b, device) ==
    ToggleMutated([b EXCEPT !.doc.toggle = device, !.doc.toggleOk = TRUE])

\* Lines 628-659.  addEventListener ignores a listener that is registered
\* already (toggleDarkMode is one function); the arrow function of line 652
\* is a new listener each time.
initializeDarkModeToggle(b, device) ==
    IF (device = "web" /\ b.doc.web \in {"none", "empty"})
       \/ (device = "mobile" /\ b.doc.mobile = "none")
    THEN b
    ELSE LET attached ==
                 ToggleMutated(
                     [b EXCEPT !.doc.toggle = device,
                               !.doc.toggleOk = TRUE,
                               !.doc.listeners = 1,
                               !.doc.web = IF device = "web" THEN "grandchild" ELSE @,
                               !.doc.mobile = IF device = "mobile" THEN "child" ELSE @])
             moded == IF InitialModeDark(b.doc.saved, b.doc.prefersDark)
                      THEN enableDarkMode(attached)
                      ELSE enableLightMode(attached)
         IN [moded EXCEPT !.doc.mediaListeners = @ + 1]

\* Lines 662-700: the history methods and onpopstate are wrapped.
initializeNavigation(b) == [b EXCEPT !.doc.navWraps = @ + 1]

\* Lines 703-711: XMLHttpRequest.prototype.open is wrapped.
initializeApiOverrides(b) == [b EXCEPT !.doc.xhrWraps = @ + 1]

\* Mutant: initialize looks for the desktop top bar only.
initialize_WebOnly(b) ==
    IF b.init THEN b
    ELSE IF b.doc.web = "grandchild"
    THEN initializeApiOverrides(initializeNavigation(initializeDarkModeToggle(
             updateUrlSlug([b EXCEPT !.init = TRUE], FALSE), "web")))
    ELSE b

\* Mutant: initialize without the isInitialized guard.
initialize_Unguarded(b) ==
    IF b.doc.web = "grandchild" \/ b.doc.mobile = "child"
    THEN initializeApiOverrides(initializeNavigation(initializeDarkModeToggle(
             updateUrlSlug([b EXCEPT !.init = TRUE], b.init),
             IF b.doc.web # "none" THEN "web" ELSE "mobile")))
    ELSE b

\* Lines 714-730.
initialize(b) ==
    IF b.init THEN b
    ELSE IF b.doc.web = "grandchild" \/ b.doc.mobile = "child"
    THEN initializeApiOverrides(initializeNavigation(initializeDarkModeToggle(
             updateUrlSlug([b EXCEPT !.init = TRUE], FALSE),
             IF b.doc.web # "none" THEN "web" ELSE "mobile")))
    ELSE b

\* Lines 733-744 with 714-730: the app renders its desktop top bar, the
\* observer calls initialize, the script initializes.
Initialize ==
    /\ browser # NoBrowser
    /\ ~browser.init
    /\ browser' = [initialize([browser EXCEPT !.doc.web = "grandchild"])
                      EXCEPT !.doc.pending = FALSE]
    /\ UNCHANGED <<store, cache, manualConfig, procs, last, hops>>

\* Lines 733-744: the script runs; it observes #notion-app and tries to
\* initialize at once, or does neither when there is no #notion-app.
RunScript ==
    /\ browser # NoBrowser
    /\ ~browser.doc.ran
    /\ LET b == [browser EXCEPT !.doc.ran = TRUE, !.doc.observing = browser.doc.root]
       IN browser' = IF browser.doc.root THEN initialize(b) ELSE b
    /\ UNCHANGED <<store, cache, manualConfig, procs, last, hops>>

\* The app changes the top bars below #notion-app (a task of its own: the
\* records of the task before have been delivered).
Render(web, mobile) ==
    /\ browser # NoBrowser
    /\ browser.doc.ran
    /\ ~browser.doc.unloaded
    /\ ~browser.doc.pending
    /\ <<web, mobile>> # <<browser.doc.web, browser.doc.mobile>>
    /\ browser' =
         [browser EXCEPT !.doc.web = web, !.doc.mobile = mobile,
                         !.doc.pending = browser.doc.observing,
                         !.doc.toggle =
                             IF (@ = "web" /\ web # "grandchild")
                                \/ (@ = "mobile" /\ mobile # "child")
                             THEN "detached" ELSE @]
    /\ UNCHANGED <<store, cache, manualConfig, procs, last, hops>>

\* Line 733: the observer's callback, at the end of the task that mutated.
ObserverCallback ==
    /\ browser # NoBrowser
    /\ browser.doc.pending
    /\ browser' = initialize([browser EXCEPT !.doc.pending = FALSE])
    /\ UNCHANGED <<store, cache, manualConfig, procs, last, hops>>

\* The visitor clicks the toggle (line 638: its click listener).
ToggleClick ==
    /\ browser # NoBrowser
    /\ browser.doc.ran
    /\ ~browser.doc.unloaded
    /\ ~browser.doc.pending
    /\ browser.doc.toggle # "detached"
    /\ browser.doc.listeners > 0
    /\ browser' = toggleDarkMode(browser)
    /\ UNCHANGED <<store, cache, manualConfig, procs, last, hops>>

\* The OS color scheme changes (lines 652-656: the media query's listener).
ColorSchemeChange ==
    /\ browser # NoBrowser
    /\ browser.doc.ran
    /\ ~browser.doc.unloaded
    /\ ~browser.doc.pending
    /\ LET b == [browser EXCEPT !.doc.prefersDark = ~@]
       IN browser' = IF b.doc.mediaListeners > 0 /\ b.doc.saved = "null"
                     THEN IF b.doc.prefersDark THEN enableDarkMode(b)
                          ELSE enableLightMode(b)
                     ELSE b
    /\ UNCHANGED <<store, cache, manualConfig, procs, last, hops>>

\* Lines 747-749: beforeunload disconnects the observer.
BeforeUnload ==
    /\ browser # NoBrowser
    /\ browser.doc.ran
    /\ ~browser.doc.unloaded
    /\ ~browser.doc.pending
    /\ browser' = [browser EXCEPT !.doc.observing = FALSE, !.doc.unloaded = TRUE]
    /\ UNCHANGED <<store, cache, manualConfig, procs, last, hops>>

\* The upstream app calls history.pushState(state, title, url).
AppPushState(url) ==
    /\ browser # NoBrowser
    /\ browser.idx < MaxHistory
    /\ browser' = IF browser.init THEN pushState(browser, url)
                  ELSE originalPushState(browser, url)
    /\ UNCHANGED <<store, cache, manualConfig, procs, last, hops>>

\* The upstream app calls history.replaceState(state, title, url).
AppReplaceState(url) ==
    /\ browser # NoBrowser
    /\ browser' = IF browser.init THEN replaceState(browser, "", url)
                  ELSE originalReplaceState(browser, url)
    /\ UNCHANGED <<store, cache, manualConfig, procs, last, hops>>

\* The visitor goes back or forward to the entry at index j.
PopState(j) ==
    /\ browser # NoBrowser
    /\ j \in 1..Len(browser.entries)
    /\ j # browser.idx
    /\ LET there == [browser EXCEPT !.idx = j, !.path = browser.entries[j]]
       IN browser' = IF browser.init THEN onpopstate(there) ELSE there
    /\ UNCHANGED <<store, cache, manualConfig, procs, last, hops>>

(* --------------------------- specifications --------------------------- *)

EmptyMap == [x \in {} |-> NoRaw]

\* The router: one visitor at a time against a store that does not change.
Init ==
    /\ \E text \in RouteTexts :
         store = IF text = NoRaw THEN EmptyMap ELSE MapSet(EmptyMap, ExCom, text)
    /\ cache = EmptyMap
    /\ manualConfig = NoRaw
    /\ procs = [p \in Procs |-> IdleProc]
    /\ last = NoLast
    /\ hops = 0
    /\ browser = NoBrowser

Next ==
    \/ \E r \in RouteRequests : Start(1, r)
    \/ KvReturn(1)
    \/ FetchReturn(1)
    \/ Follow(1)

Spec == Init /\ [][Next]_vars

\* The configuration processing: every declared slug mapping of up to
\* MaxEntries members, resolved once.
ConfigSlugs == {RootSlug, AboutSlug, SevenSlug, TenSlug}

ConfigPageIds == {Str(PageA), Str(PageB), Str(<<>>), Num(<<"5">>)}

ConfigMembers == {Member(k, v) : k \in ConfigSlugs, v \in ConfigPageIds}

ConfigDecls == UNION {[1..n -> ConfigMembers] : n \in 0..MaxEntries}

ConfigRequests == {Request(ExCom, "GET", SitemapPath, {})}

InitConfig ==
    /\ \E decl \in ConfigDecls : store = MapSet(EmptyMap, ExCom, RawObject(decl))
    /\ cache = EmptyMap
    /\ manualConfig = NoRaw
    /\ procs = [p \in Procs |-> IdleProc]
    /\ last = NoLast
    /\ hops = 0
    /\ browser = NoBrowser

NextConfig ==
    \/ \E r \in ConfigRequests : Start(1, r)
    \/ KvReturn(1)

SpecConfig == InitConfig /\ [][NextConfig]_vars

\* The router with awaits that end: the store and the upstream answer or
\* throw, they do not leave a request waiting for ever.
LiveTexts == {NoRaw, RawGarbage, RawNoMap, RawObject(DeclSite)}

LiveRequests ==
    {Request(ExCom, "GET", path, {}) :
        path \in {Slash, RobotsPath, HealthPath, AppPrefix \o JsSuffix,
                  ApiPrefix \o <<"/", "x">>, Slash \o AboutSlug,
                  Slash \o NoSuchSlug, Slash \o PageA, Slash \o PageC}}

InitLive ==
    /\ \E text \in LiveTexts :
         store = IF text = NoRaw THEN EmptyMap ELSE MapSet(EmptyMap, ExCom, text)
    /\ cache = EmptyMap
    /\ manualConfig = NoRaw
    /\ procs = [p \in Procs |-> IdleProc]
    /\ last = NoLast
    /\ hops = 0
    /\ browser = NoBrowser

NextLive ==
    \/ \E r \in LiveRequests : Start(1, r)
    \/ KvReturn(1)
    \/ FetchReturn(1)
    \/ Follow(1)

SpecLive ==
    InitLive /\ [][NextLive]_vars /\ WF_vars(KvReturn(1)) /\ WF_vars(FetchReturn(1))

\* The cache: concurrent fetch events while the operator edits the store.
CacheHosts == {ExCom, WWW \o ExCom, WWW \o WWW \o WWW \o ExCom}

CacheRequests == {Request(h, "GET", RobotsPath, {}) : h \in CacheHosts}

CacheKeys == {ExCom, WWW \o ExCom}

CacheTexts == {RawObject(DeclSite), RawObject(DeclNoRoot), RawGarbage}

InitCache ==
    /\ store = EmptyMap
    /\ cache = EmptyMap
    /\ manualConfig = NoRaw
    /\ procs = [p \in Procs |-> IdleProc]
    /\ last = NoLast
    /\ hops = 0
    /\ browser = NoBrowser

NextCache ==
    \/ \E p \in Procs, r \in CacheRequests : Start(p, r)
    \/ \E p \in Procs : KvReturn(p)
    \/ \E k \in CacheKeys, text \in CacheTexts : StorePut(k, text)
    \/ \E k \in CacheKeys : StoreDelete(k)

SpecCache == InitCache /\ [][NextCache]_vars

\* The manual mode: the deployment has a fixed config; concurrent fetch events
\* while the operator edits the store.
OtherCom == <<"o", "t", ".", "c", "o", "m">>

ManualTexts ==
    {RawObject(DeclSite),
     RawObject(<<Member(AboutSlug, Str(PageB)), Member(SevenSlug, Str(PageA)),
                 Member(TenSlug, Str(PageA))>>),
     RawNoMap}

ManualRequests ==
    {Request(h, "GET", path, {}) :
        h \in {ExCom, WWW \o ExCom, OtherCom},
        path \in {RobotsPath, SitemapPath, Slash \o AboutSlug, Slash \o NoSuchSlug}}

InitManual ==
    /\ manualConfig \in ManualTexts
    /\ store \in {EmptyMap, MapSet(EmptyMap, ExCom, RawObject(DeclNoRoot))}
    /\ cache = EmptyMap
    /\ procs = [p \in Procs |-> IdleProc]
    /\ last = NoLast
    /\ hops = 0
    /\ browser = NoBrowser

NextManual ==
    \/ \E p \in Procs, r \in ManualRequests : Start(p, r)
    \/ \E p \in Procs : FetchReturn(p)
    \/ \E text \in {RawObject(DeclNoRoot), RawGarbage} : StorePut(ExCom, text)
    \/ StoreDelete(ExCom)

SpecManual == InitManual /\ [][NextManual]_vars

\* The browser: a page served for ex.com is open in the visitor's tab, the
\* upstream app and the visitor navigate.
TitledPath(pageId) == <<"/", "T", "-">> \o pageId

BrowserPaths ==
    {Slash, Slash \o AboutSlug, Slash \o NoSuchSlug, Slash \o PageA,
     Slash \o PageB, Slash \o PageD, TitledPath(PageB), TitledPath(PageC)}

BrowserTexts == {RawObject(DeclSite), RawObject(DeclNoRoot), RawObject(DeclAlias)}

\* The paths at which fetchAndApply serves the page and its script.
ServedPaths(config) ==
    {path \in BrowserPaths :
        Dispatch(Request(ExCom, "GET", path, {}), ExCom, config).handler = "html"}

InitBrowser ==
    /\ \E text \in BrowserTexts :
         /\ store = MapSet(EmptyMap, ExCom, text)
         /\ \E c \in {LoadConfig(ExCom, text, FALSE).cfg} :
              \E path \in ServedPaths(c) :
                 browser = Browser(c, path, <<path>>, 1, FALSE)
    /\ cache = EmptyMap
    /\ manualConfig = NoRaw
    /\ procs = [p \in Procs |-> IdleProc]
    /\ last = NoLast
    /\ hops = 0

NextBrowser ==
    \/ Initialize
    \/ \E url \in BrowserPaths \cup {<<>>} : AppPushState(url)
    \/ \E url \in BrowserPaths : AppReplaceState(url)
    \/ \E j \in 1..MaxHistory : PopState(j)

SpecBrowser == InitBrowser /\ [][NextBrowser]_vars

\* The document: a page served for ex.com has been parsed; its script runs,
\* the app renders, the visitor clicks, the OS changes its color scheme, the
\* page unloads.
WebStates == {"none", "empty", "child", "grandchild"}

MobileStates == {"none", "empty", "child"}

SavedModes == {"null", "true", "false", "other"}

DomPaths == {Slash \o PageB, TitledPath(PageC)}

InitDom ==
    /\ store = MapSet(EmptyMap, ExCom, RawObject(DeclSite))
    /\ \E path \in DomPaths, root, prefersDark, dark \in BOOLEAN, web \in WebStates,
          mobile \in MobileStates, saved \in SavedModes, theme \in {"absent", "light"} :
         browser =
             [Browser(LoadConfig(ExCom, RawObject(DeclSite), FALSE).cfg,
                      path, <<path>>, 1, FALSE)
                 EXCEPT !.doc = Document(root, web, mobile, saved, prefersDark,
                                         theme, dark)]
    /\ cache = EmptyMap
    /\ manualConfig = NoRaw
    /\ procs = [p \in Procs |-> IdleProc]
    /\ last = NoLast
    /\ hops = 0

NextDom ==
    \/ RunScript
    \/ \E web \in WebStates, mobile \in MobileStates : Render(web, mobile)
    \/ ObserverCallback
    \/ ToggleClick
    \/ ColorSchemeChange
    \/ BeforeUnload

\* The observer's callback is a microtask: it runs when the task that queued
\* the record ends.
SpecDom == InitDom /\ [][NextDom]_vars /\ WF_vars(ObserverCallback)


(* ------------------------- the router's claims ------------------------ *)

\* A config of the schema: an object that has a slug mapping.
SchemaConfig(config) == config.t = "object" /\ config.hasMap

\* A stored text of the schema: the JSON of an object with a slug mapping.
SchemaText(raw) == raw.kind = "object" /\ raw.hasMap

\* A page id as the data model has it: a non-empty string.
NonEmptyString(v) == v.t = "str" /\ v.s # <<>>

\* slug is a key of the mapping and its entry has a page id.
HasPageIdKey(config, slug) ==
    slug \in ObjKeys(config.SLUG_TO_PAGE)
    /\ NonEmptyString(config.SLUG_TO_PAGE[ObjOwn(config.SLUG_TO_PAGE, slug)].v)

\* The request is matched by one of the routing rules 1-6.
RulesOneToSix(request) ==
    \/ request.method = "OPTIONS"
    \/ request.path \in {RobotsPath, SitemapPath, HealthPath, UnderHealthPath}
    \/ StartsWith(request.path, AppPrefix) /\ EndsWith(request.path, JsSuffix)
    \/ StartsWith(request.path, ApiPrefix)

\* The handler the routing table of the specification names for a request.
ClaimedHandler(request, config) ==
    IF request.method = "OPTIONS" THEN "cors"
    ELSE IF request.path = RobotsPath THEN "robots"
    ELSE IF request.path = SitemapPath THEN "sitemap"
    ELSE IF request.path \in {HealthPath, UnderHealthPath} THEN "health"
    ELSE IF StartsWith(request.path, AppPrefix) /\ EndsWith(request.path, JsSuffix)
    THEN "jsAsset"
    ELSE IF StartsWith(request.path, ApiPrefix) THEN "api"
    ELSE IF HasPageIdKey(config, Slice1(request.path)) THEN "slugRedirect"
    ELSE IF notionPageIdPattern(Slice1(request.path))
            /\ ~Includes(config.pages, Slice1(request.path))
    THEN "unknownPage"
    ELSE "html"

\* C1: every request whose hostname resolves to a config is answered by the
\* first rule that matches, in the order OPTIONS, /robots.txt, /sitemap.xml,
\* /health or /_health, /app*.js, /api*, slug key, unknown 32-hex page id,
\* content fetch.  (Entries without a page id are not counted as slug keys.)
C1_FirstMatchingRule ==
    (last.valid /\ SchemaConfig(last.cfg))
        => last.resp.handler = ClaimedHandler(last.req, last.cfg)

\* C2: a request, of any method and path, whose hostname resolves to no
\* config is answered 404 text/plain with the body naming the hostname
\* (without its leading "www."), and makes no call to the upstream.
C2_UnresolvedIs404 ==
    (last.valid /\ ~Truthy(last.cfg))
        => /\ last.resp.handler = "notConfigured"
           /\ last.resp.status = 404
           /\ last.resp.ctype = "text/plain"
           /\ last.resp.body = "Domain \"<arg>\" not configured"
           /\ last.resp.arg = StripWww(last.req.host)
           /\ last.up = 0

\* C2 witness: a preflight request to /robots.txt on a host whose store read
\* threw was answered 404.
C2_Witness ==
    /\ last.valid /\ ~Truthy(last.cfg) /\ last.threw
    /\ last.req.method = "OPTIONS" /\ last.req.path = RobotsPath
    /\ last.resp.status = 404

\* C3 as stated: a GET of /health is answered 200 OK whatever the
\* configuration state.
C3_HealthAlwaysOk ==
    (last.valid /\ last.req.method = "GET" /\ last.req.path = HealthPath)
        => last.resp.status = 200 /\ last.resp.body = "OK"

\* C3 as amended: a request to /health that is not a preflight is answered
\* 200 OK whenever the hostname resolves to a config, whatever the config
\* holds, and with the 404 of the unresolved domain otherwise.
C3_HealthOkWhenResolved ==
    (last.valid /\ last.req.path = HealthPath /\ last.req.method # "OPTIONS")
        => IF Truthy(last.cfg)
           THEN last.resp.status = 200 /\ last.resp.body = "OK"
           ELSE last.resp.status = 404 /\ last.resp.handler = "notConfigured"

\* C3 witness: /health was answered 200 for a config without a slug mapping.
C3_Witness ==
    /\ last.valid /\ last.req.path = HealthPath /\ last.req.method = "GET"
    /\ last.cfg.t = "object" /\ ~last.cfg.hasMap
    /\ last.resp.status = 200

\* C4: a request not matched by rules 1-6 is answered by the slug redirect
\* exactly when its path minus the leading slash is a key of slugToPage, and
\* then Location is https://<domain>/ for the root slug and
\* https://<domain>/<pageId> for any other slug.
C4_SlugRedirectIffKey ==
    (last.valid /\ SchemaConfig(last.cfg) /\ ~RulesOneToSix(last.req))
        => LET slug == Slice1(last.req.path)
           IN /\ (last.resp.handler = "slugRedirect")
                    <=> HasPageIdKey(last.cfg, slug)
              /\ (last.resp.handler = "slugRedirect")
                    => /\ last.resp.status = 301
                       /\ last.resp.locHost = last.cfg.MY_DOMAIN
                       /\ last.resp.locPath =
                            IF slug = <<>> THEN Slash
                            ELSE Slash \o ObjGet(last.cfg.SLUG_TO_PAGE, slug).s

\* C5: the target of a slug redirect, requested in turn, is not answered with
\* another redirect.
C5_RedirectEndsAfterOneHop ==
    (last.valid /\ last.via = "slugRedirect") => last.resp.status # 301

\* C6: a path of 32 hex digits that is in pages is never redirected to the
\* root, and one that is absent from pages is always answered with a 301 to
\* the root (unless the preflight rule or the slug rule answers first).
C6_UnknownPageIdToRoot ==
    (last.valid /\ Truthy(last.cfg) /\ last.cfg.t = "object"
     /\ notionPageIdPattern(Slice1(last.req.path)))
        => LET id == Slice1(last.req.path)
               toRoot == /\ last.resp.status = 301
                         /\ last.resp.locHost = last.cfg.MY_DOMAIN
                         /\ last.resp.locPath = Slash
           IN /\ Includes(last.cfg.pages, id) => ~toRoot
              /\ (/\ ~Includes(last.cfg.pages, id)
                  /\ last.req.method # "OPTIONS"
                  /\ ~HasPageIdKey(last.cfg, id)) => toRoot

(* --------------------- the configuration's claims --------------------- *)

\* The position of the first member of the declaration named k.
FirstPos(decl, k) == CHOOSE i \in 1..Len(decl) :
                        decl[i].k = k /\ \A j \in 1..(i - 1) : decl[j].k # k

\* Property a is enumerated before property b: array indices ascending, then
\* the other names in the order of their first declaration.
EnumBefore(decl, a, b) ==
    \/ IsArrayIndex(a) /\ IsArrayIndex(b) /\ ToNum(a) < ToNum(b)
    \/ IsArrayIndex(a) /\ ~IsArrayIndex(b)
    \/ ~IsArrayIndex(a) /\ ~IsArrayIndex(b) /\ FirstPos(decl, a) < FirstPos(decl, b)

\* The valid entries of the parsed mapping m: slug -> page id, a non-empty string.
ValidSlugs(m) == {k \in ObjKeys(m) : NonEmptyString(m[ObjOwn(m, k)].v)}

PageOf(m, slug) == m[ObjOwn(m, slug)].v.s

CachedObjects == {k \in DOMAIN cache : cache[k].t = "object" /\ cache[k].hasMap}

\* C7 as stated: pageToSlug is the inverse of the valid entries of
\* slugToPage, also when two slugs have the same page id.
C7_ExactInverse ==
    \A k \in CachedObjects :
        LET c == cache[k]
            m == c.SLUG_TO_PAGE
        IN /\ \A slug \in ValidSlugs(m) :
                 /\ PageOf(m, slug) \in ObjKeys(c.PAGE_TO_SLUG)
                 /\ c.PAGE_TO_SLUG[ObjOwn(c.PAGE_TO_SLUG, PageOf(m, slug))].v = Str(slug)
           /\ ObjKeys(c.PAGE_TO_SLUG) = {PageOf(m, slug) : slug \in ValidSlugs(m)}

\* C7 as amended: pageToSlug has exactly the page ids of the valid entries of
\* slugToPage as keys, each once, and maps a page id to the slug of the valid
\* entry for it that is enumerated last; it is the inverse when no two valid
\* entries share a page id.
C7_InverseLastWins ==
    \A k \in CachedObjects :
        LET c == cache[k]
            m == c.SLUG_TO_PAGE
            decl == store[k].decl
        IN /\ ObjKeys(c.PAGE_TO_SLUG) = {PageOf(m, slug) : slug \in ValidSlugs(m)}
           /\ Cardinality(ObjKeys(c.PAGE_TO_SLUG)) = Len(c.PAGE_TO_SLUG)
           /\ \A slug \in ValidSlugs(m) :
                 (\A other \in ValidSlugs(m) \ {slug} :
                     PageOf(m, other) = PageOf(m, slug) => EnumBefore(decl, other, slug))
                 => c.PAGE_TO_SLUG[ObjOwn(c.PAGE_TO_SLUG, PageOf(m, slug))].v = Str(slug)

\* C7 witness: a cached config two of whose slugs have the same page id.
C7_Witness ==
    \E k \in CachedObjects :
        /\ Len(cache[k].slugs) = 2
        /\ Len(cache[k].PAGE_TO_SLUG) = 1
        /\ cache[k].PAGE_TO_SLUG[1].v = Str(cache[k].slugs[2])

\* What C8 says apart from the order: slugs and pages are as long, aligned
\* with slugToPage, and hold the valid entries, each once.
SlugsPagesAligned(c) ==
    LET m == c.SLUG_TO_PAGE
    IN /\ Len(c.slugs) = Len(c.pages)
       /\ \A i \in 1..Len(c.slugs) :
             c.slugs[i] \in ObjKeys(m) /\ m[ObjOwn(m, c.slugs[i])].v = Str(c.pages[i])
       /\ {c.slugs[i] : i \in 1..Len(c.slugs)} = ValidSlugs(m)
       /\ \A i, j \in 1..Len(c.slugs) : i # j => c.slugs[i] # c.slugs[j]

\* C8 as stated: slugs and pages are aligned and follow the declaration order.
C8_DeclarationOrder ==
    \A k \in CachedObjects :
        LET c == cache[k]
            decl == store[k].decl
        IN /\ SlugsPagesAligned(c)
           /\ \A i, j \in 1..Len(c.slugs) :
                 i < j => FirstPos(decl, c.slugs[i]) < FirstPos(decl, c.slugs[j])

\* C8 as amended: slugs and pages are aligned and follow the enumeration
\* order of the parsed mapping: slugs that are array indices ("7", "10")
\* first, ascending, then the other slugs in declaration order.
C8_EnumerationOrder ==
    \A k \in CachedObjects :
        LET c == cache[k]
            decl == store[k].decl
        IN /\ SlugsPagesAligned(c)
           /\ \A i, j \in 1..Len(c.slugs) :
                 i < j => EnumBefore(decl, c.slugs[i], c.slugs[j])

\* C8 witness: "about" was declared before "7" and slugs has "7" first.
C8_Witness ==
    \E k \in CachedObjects :
        /\ Len(store[k].decl) = 2
        /\ store[k].decl[1].k = AboutSlug
        /\ cache[k].slugs = <<SevenSlug, AboutSlug>>
        /\ cache[k].pages = <<PageB, PageA>>

(* -------------------------- the cache's claims ------------------------ *)

WwwxCom == <<"w", "w", "w", "x", ".", "c", "o", "m">>

\* Hostnames that do not begin with "www.".
PlainHosts == {ExCom, WwwxCom}

WithWww(hosts) == {WWW \o h : h \in hosts}

SameResolution(h) ==
    \A kvThrows \in BOOLEAN :
        /\ StripWww(WWW \o h) = StripWww(h)
        /\ GetDomainConfigNow(WWW \o h, kvThrows) = GetDomainConfigNow(h, kvThrows)

SameThroughFetch(h) ==
    \A kvThrows \in BOOLEAN :
        ResolveThroughFetch(WWW \o h, kvThrows) = ResolveThroughFetch(h, kvThrows)

\* C9 as stated: in every state of the cache and the store, "www." + h
\* resolves to the config h resolves to, in getDomainConfig and through
\* fetchAndApply, also for an h that begins with "www.".
C9_WwwSameForAllHosts ==
    \A h \in PlainHosts \cup WithWww(PlainHosts) \cup WithWww(WithWww(PlainHosts)) :
        SameResolution(h) /\ SameThroughFetch(h)

\* C9 as amended: for an h that does not begin with "www.", "www." + h resolves
\* to the config (and cache key) h resolves to, in getDomainConfig and through
\* fetchAndApply; through fetchAndApply, which strips the prefix a second
\* time, also for an h with one leading "www.".
C9_WwwSameForPlainHosts ==
    /\ \A h \in PlainHosts : SameResolution(h)
    /\ \A h \in PlainHosts \cup WithWww(PlainHosts) : SameThroughFetch(h)

\* C9 witness: a request to www.ex.com was answered from the config cached
\* under ex.com.
C9_Witness ==
    /\ last.valid /\ last.req.host = WWW \o ExCom /\ last.hit
    /\ last.cfg.t = "object" /\ last.cfg.MY_DOMAIN = ExCom
    /\ last.resp.arg = ExCom

StoreReadReturns(p) == procs[p].pc = "kv" /\ procs'[p].pc # "kv"

\* C11: a resolution that finds no entry in the store returns null (the
\* visitor gets the 404) and leaves the cache as it was; a request is answered
\* without a read of the store only from a cache entry, so the next
\* resolution reads again; and a read that finds a valid entry succeeds.
C11_MissNotCached ==
    [][/\ \A p \in Procs :
             (StoreReadReturns(p) /\ KvGet(procs[p].clean) = NoRaw)
                 => /\ cache' = cache
                    /\ last'.valid /\ last'.kv = 1
                    /\ last'.cfg = NullConfig
                    /\ last'.resp.status = 404
       /\ (last'.valid /\ last'.kv = 0) => MapHas(cache, last'.clean)
       /\ \A p \in Procs :
             (StoreReadReturns(p) /\ SchemaText(KvGet(procs[p].clean))
              /\ ~last'.threw)
                 => /\ last'.cfg.t = "object"
                    /\ last'.cfg.MY_DOMAIN = procs[p].clean
                    /\ last'.resp.status = 200
                    /\ MapHas(cache', procs[p].clean)]_vars

\* C11 witness: a resolution found no entry, answered 404 and cached nothing.
C11_Witness ==
    /\ last.valid /\ last.kv = 1 /\ ~last.threw
    /\ KvGet(last.clean) = NoRaw
    /\ last.resp.status = 404
    /\ ~MapHas(cache, last.clean)

\* A stored text that is not a config of the schema: unparseable, a value
\* that is no object, or an object without a slug mapping.
NotSchemaText(raw) ==
    \/ raw.kind \in {"garbage", "empty", "null", "prim"}
    \/ raw.kind = "object" /\ ~raw.hasMap

\* C12: when the store's text for the hostname is not a config of the
\* schema, every request for the hostname, the first and the later ones, is
\* answered with the 404 of the unresolved domain and the cache gets no entry.
C12_NotSchemaIs404 ==
    (last.valid /\ NotSchemaText(KvGet(last.clean)))
        => /\ last.resp = NotConfiguredResponse(last.hostname)
           /\ ~MapHas(cache, last.clean)

\* C13: once the cache holds an entry for a hostname, no step changes or
\* removes that entry, whatever the interleaving of the requests and of the
\* operator's changes to the store.
C13_CacheEntryNeverChanges ==
    [][\A k \in DOMAIN cache : MapHas(cache', k) /\ cache'[k] = cache[k]]_vars

(* ----------------------- the manual mode's claims --------------------- *)

\* The fields processConfigurationObject derives, for an object whose slug
\* mapping was declared as decl: slugs and pages aligned and in enumeration
\* order, pageToSlug with the page ids of the valid entries as keys.
FreshlyDerived(c, decl) ==
    /\ c.hasDerived
    /\ SlugsPagesAligned(c)
    /\ \A i, j \in 1..Len(c.slugs) :
          i < j => EnumBefore(decl, c.slugs[i], c.slugs[j])
    /\ ObjKeys(c.PAGE_TO_SLUG) = {c.pages[i] : i \in 1..Len(c.pages)}

\* The mapping m has the members declared in decl, a repeated name having its
\* last value.
MappingOf(m, decl) ==
    /\ ObjKeys(m) = {decl[i].k : i \in 1..Len(decl)}
    /\ \A i \in 1..Len(decl) :
          (\A j \in (i + 1)..Len(decl) : decl[j].k # decl[i].k)
              => m[ObjOwn(m, decl[i].k)].v = decl[i].v

\* The hostname without its leading "www.".
WithoutWww(h) == IF StartsWith(h, WWW) THEN SubSeq(h, Len(WWW) + 1, Len(h)) ELSE h

ManualModeState ==
    /\ cache = EmptyMap
    /\ \A p \in Procs : procs[p].pc # "kv" /\ procs[p].kv = 0 /\ ~procs[p].hit
    /\ last.valid
          => /\ last.kv = 0 /\ ~last.hit
             /\ last.cfg.t = "object"
             /\ last.cfg.MY_DOMAIN = WithoutWww(last.req.host)
             /\ last.cfg.hasMap = manualConfig.hasMap
             /\ MappingOf(last.cfg.SLUG_TO_PAGE, manualConfig.decl)
             /\ FreshlyDerived(last.cfg, manualConfig.decl)

\* C14: with a manualConfig every request is served with the fixed config,
\* its domain the request's hostname without "www." and its derived fields
\* built anew; the store is not read, the cache is neither read nor written,
\* and the fixed config itself never changes.
C14_ManualModeFixedConfig ==
    []ManualModeState /\ [][manualConfig' = manualConfig /\ cache' = cache]_vars

\* C14 witness: a request to www.ex.com was served with the fixed config
\* while the store held another config for ex.com.
C14_Witness ==
    /\ last.valid /\ last.req.host = WWW \o ExCom
    /\ last.cfg.MY_DOMAIN = ExCom
    /\ KvGet(ExCom) = RawObject(DeclNoRoot)
    /\ manualConfig = RawObject(DeclSite)
    /\ last.cfg.slugs = <<RootSlug, AboutSlug, ApisSlug>>
    /\ last.kv = 0

(* ------------------------ the preflight's claims ---------------------- *)

\* The request has each of the three preflight headers.
CarriesAll(request) ==
    \A n \in CorsRequestHeaders : \E h \in request.hdrs : h.n = n

\* The request has each of the three preflight headers with a value that
\* is not empty.
CarriesAllWithValue(request) ==
    \A n \in CorsRequestHeaders : \E h \in request.hdrs : h.n = n /\ h.v # <<>>

PreflightAccepted(resp) ==
    resp.status = 204 /\ resp.headers = corsHeaders

PreflightRefused(resp) ==
    /\ resp.status = 405
    /\ resp.headers = {Header("Allow", "GET, HEAD, POST, PUT, OPTIONS")}

\* C15 as stated: an OPTIONS request (to a resolved hostname) that carries
\* the three headers is answered 204 with the CORS headers, one that lacks
\* any of them 405 with Allow.
C15_PreflightByPresence ==
    (last.valid /\ last.req.method = "OPTIONS" /\ Truthy(last.cfg))
        => IF CarriesAll(last.req) THEN PreflightAccepted(last.resp)
           ELSE PreflightRefused(last.resp)

\* C15 as amended: an OPTIONS request to a hostname that resolves to a config
\* is answered 204 with the CORS headers when each of the three headers has
\* a non-empty value, and 405 with Allow when one is absent or empty; to a
\* hostname that does not resolve it is answered with the 404 of C2.
C15_PreflightByValue ==
    (last.valid /\ last.req.method = "OPTIONS")
        => IF ~Truthy(last.cfg) THEN last.resp.status = 404
           ELSE IF CarriesAllWithValue(last.req) THEN PreflightAccepted(last.resp)
           ELSE PreflightRefused(last.resp)

\* C15 witness: a preflight with the three headers, one of them empty, was
\* answered 405.
C15_Witness ==
    /\ last.valid /\ last.req.method = "OPTIONS" /\ Truthy(last.cfg)
    /\ CarriesAll(last.req) /\ ~CarriesAllWithValue(last.req)
    /\ last.resp.status = 405

(* ------------------------- the sitemap's claims ----------------------- *)

\* The <loc> of a slug on a domain: https://<domain>/ for the root slug,
\* https://<domain>/<slug> for another.
LocOf(domain, slug) ==
    [host |-> domain, path |-> IF slug = <<>> THEN Slash ELSE Slash \o slug]

\* The slug a <loc> is for.
SlugOfLoc(loc) == SubSeq(loc.path, 2, Len(loc.path))

\* A sitemap was served for a config of the schema.
SitemapServed ==
    /\ last.valid /\ last.resp.handler = "sitemap"
    /\ SchemaConfig(last.cfg) /\ SchemaText(KvGet(last.clean))

\* The sitemap has one <url> for each valid slug of the config and no other.
SitemapListsValidSlugs ==
    LET urls == last.resp.urls
        valid == ValidSlugs(last.cfg.SLUG_TO_PAGE)
    IN /\ Len(urls) = Cardinality(valid)
       /\ \A slug \in valid :
             \E i \in 1..Len(urls) : urls[i] = LocOf(last.clean, slug)

\* C16 as stated: the sitemap has one <url> per configured slug, with the
\* <loc> of the slug, in the order the slugs were declared.
C16_SitemapDeclarationOrder ==
    SitemapServed
        => /\ SitemapListsValidSlugs
           /\ \A i, j \in 1..Len(last.resp.urls) :
                 i < j => FirstPos(KvGet(last.clean).decl,
                                   SlugOfLoc(last.resp.urls[i]))
                            < FirstPos(KvGet(last.clean).decl,
                                       SlugOfLoc(last.resp.urls[j]))

\* C16 as amended: the sitemap has one <url> per slug whose page id is a
\* non-empty string, with the <loc> of the slug, in the enumeration order of
\* the parsed mapping: index-like slugs first, ascending, then the others in
\* declaration order.
C16_SitemapEnumerationOrder ==
    SitemapServed
        => /\ SitemapListsValidSlugs
           /\ \A i, j \in 1..Len(last.resp.urls) :
                 i < j => EnumBefore(KvGet(last.clean).decl,
                                     SlugOfLoc(last.resp.urls[i]),
                                     SlugOfLoc(last.resp.urls[j]))

\* C16 witness: the root slug was declared before "7" and the sitemap lists
\* /7 before /.
C16_Witness ==
    /\ SitemapServed
    /\ Len(KvGet(last.clean).decl) = 2
    /\ KvGet(last.clean).decl[1].k = RootSlug
    /\ last.resp.urls = <<LocOf(ExCom, SevenSlug), LocOf(ExCom, RootSlug)>>

(* ------------------------ the errors' claims -------------------------- *)

ResponseStatuses == {200, 204, 301, 404, 405, 500}

\* The completed request has a response, and where the slug lookup threw (a
\* resolved config without a slug mapping, a request no earlier rule took)
\* the response is the 500 of the outermost catch.
EndsWithResponse ==
    last.valid
        => /\ last.resp.status \in ResponseStatuses
           /\ (Truthy(last.cfg) /\ ~RulesOneToSix(last.req)
               /\ ~SchemaConfig(last.cfg))
                 => /\ last.resp.status = 500
                    /\ last.resp.ctype = "text/plain"
                    /\ last.resp.body = "Internal Server Error: <message>"

\* C17: every request ends with a response, whatever the store and the
\* upstream do; an error no handler catches becomes the 500 text/plain
\* response with the error's message, and none leaves fetchAndApply.
C17_EveryRequestAnswered ==
    /\ []EndsWithResponse
    /\ \A p \in Procs : (procs[p].pc # "idle") ~> (procs[p].pc = "idle")

\* C17 witness: the slug lookup threw on a config without a mapping and the
\* request was answered 500.
C17_Witness ==
    /\ last.valid /\ last.cfg.t = "object" /\ ~last.cfg.hasMap
    /\ last.resp.handler = "internalError"
    /\ last.resp.status = 500
    /\ last.kv = 1

\* The fixed bodies of lines 312 and 423.
GenericBodies == {"Failed to load JavaScript asset", "Failed to load page content"}

\* The call of the upstream failed: fetch threw, or the status was not a
\* success where the handler requires one.
UpstreamError ==
    /\ last.valid
    /\ last.resp.handler \in {"jsAsset", "html"}
    /\ last.outcome \in {"notOk", "throws"}

\* C18: an upstream error in the asset and content handlers is answered 500
\* with the handler's fixed message, nothing of the error or of the upstream
\* status being put into the body.
C18_UpstreamErrorGeneric500 ==
    UpstreamError
        => /\ last.resp.status = 500
           /\ last.resp.body =
                 (IF last.resp.handler = "jsAsset"
                  THEN "Failed to load JavaScript asset"
                  ELSE "Failed to load page content")
           /\ last.resp.arg = <<>>

\* C18 witness: the upstream answered a page request with a status that is
\* no success and the visitor got the generic 500.
C18_Witness ==
    /\ UpstreamError /\ last.resp.handler = "html" /\ last.outcome = "notOk"
    /\ last.resp.status = 500
    /\ last.resp.body \in GenericBodies

\* No request has called the upstream more than once, and a call that failed
\* was the request's only one.
AtMostOneCall ==
    /\ \A p \in Procs : procs[p].up <= 1 /\ (procs[p].pc = "fetch" => procs[p].up = 1)
    /\ last.up <= 1
    /\ (last.valid /\ last.outcome # "none") => last.up = 1
    /\ (last.valid /\ last.outcome = "throws") => last.resp.status = 500

\* C19: a request calls the upstream at most once, and when the call has
\* returned, failed or not, the request ends with its response in the same
\* step: there is no second call.
C19_AtMostOneUpstreamCall ==
    /\ []AtMostOneCall
    /\ [][\A p \in Procs :
             (procs[p].pc = "fetch" /\ procs'[p] # procs[p])
                 => procs'[p] = IdleProc /\ last'.valid /\ last'.up = 1]_vars

\* C19 witness: the one call of a request threw and the request ended 500.
C19_Witness ==
    /\ last.valid /\ last.outcome = "throws" /\ last.up = 1
    /\ last.resp.status = 500

(* ------------------------- the browser's claims ----------------------- *)

\* The visible path ends in a page id for which the config has a slug.
EndsInPageWithSlug(b) ==
    getCurrentPageId(b) \in ObjKeys(b.cfg.PAGE_TO_SLUG)

\* The path of the slug the config has for the page id the path ends in.
SlugPathOfPage(b) ==
    SlugPath(b.cfg.PAGE_TO_SLUG[ObjOwn(b.cfg.PAGE_TO_SLUG, getCurrentPageId(b))].v)

\* C20: once the script has initialized, and whatever pushState and
\* replaceState calls of the app and back/forward moves of the visitor follow,
\* a visible path that ends in a page id with a configured slug is that
\* slug's path.
C20_AddressBarShowsSlug ==
    (browser.init /\ EndsInPageWithSlug(browser))
        => browser.path = SlugPathOfPage(browser)

\* The visible path minus its leading slash is a known slug.
OnKnownSlug(b) ==
    \E i \in DOMAIN b.cfg.slugs : b.cfg.slugs[i] = Slice1(b.path)

\* What a call of the browser's own replaceState leaves behind.
Replaced(b, url) ==
    /\ browser'.path = url
    /\ browser'.entries = [b.entries EXCEPT ![b.idx] = url]
    /\ browser'.idx = b.idx

\* Nothing of the location and the history has changed.
HistoryUntouched ==
    /\ browser'.path = browser.path
    /\ browser'.entries = browser.entries
    /\ browser'.idx = browser.idx

\* C22: after initialization a call of history.replaceState is suppressed
\* (path, history entries and their number unchanged) exactly when the
\* visible path minus its leading slash is a known slug and the call is not
\* flagged as bypass; every other call reaches the browser's own replaceState
\* with the url it was given.
C22_ReplaceSuppressedOnSlug ==
    /\ [](browser.init =>
            \A title \in {"", "bypass"}, url \in BrowserPaths :
                replaceState(browser, title, url) =
                    IF title # "bypass" /\ OnKnownSlug(browser) THEN browser
                    ELSE originalReplaceState(browser, url))
    /\ [][\A url \in BrowserPaths :
            (browser.init /\ AppReplaceState(url))
                => IF OnKnownSlug(browser) THEN HistoryUntouched
                   ELSE Replaced(browser, url)]_vars

\* After initialization the only entry shows the raw id of a page that has a
\* slug: a replaceState call made from a path that is no slug went through.
C22_Witness ==
    /\ browser.init
    /\ browser.entries = <<Slash \o PageB>>
    /\ ObjGet(browser.cfg.PAGE_TO_SLUG, PageB) = Str(AboutSlug)

\* The url's path has 32 characters at its end and they are a known page id.
EndsInKnownPage(b, url) ==
    /\ Len(url) >= 32
    /\ \E i \in DOMAIN b.cfg.pages : b.cfg.pages[i] = SubSeq(url, Len(url) - 31, Len(url))

\* The path of the slug the config has for the page id the url ends in.
SlugPathFor(b, url) ==
    LET pageId == SubSeq(url, Len(url) - 31, Len(url))
        slug == b.cfg.PAGE_TO_SLUG[ObjOwn(b.cfg.PAGE_TO_SLUG, pageId)].v
    IN IF slug.s = <<>> THEN Slash ELSE Slash \o slug.s

\* What a call of the browser's own pushState leaves behind.
Pushed(b, url) ==
    /\ browser'.path = url
    /\ browser'.entries = Append(SubSeq(b.entries, 1, b.idx), url)
    /\ browser'.idx = b.idx + 1

\* C23: after initialization a pushState call whose url ends in the 32
\* characters of a known page id records the path of that page's slug (/ for
\* the root slug); a call with another url records the url as it is, and a
\* call without url (<<>>) records the current location.
C23_PushRecordsSlugPath ==
    [][\A url \in BrowserPaths \cup {<<>>} :
          (browser.init /\ AppPushState(url))
              => IF EndsInKnownPage(browser, url)
                 THEN Pushed(browser, SlugPathFor(browser, url))
                 ELSE IF url = <<>> THEN Pushed(browser, browser.path)
                 ELSE Pushed(browser, url)]_vars

\* After initialization /apis is the second entry: no call names that path,
\* the app has pushed the page id behind it.
C23_Witness ==
    /\ browser.init
    /\ browser.idx = 2
    /\ browser.entries = <<TitledPath(PageC), Slash \o ApisSlug>>

\* The browser has moved to entry j and the popstate handler has not run yet.
Restored(j) == [browser EXCEPT !.idx = j, !.path = browser.entries[j]]

\* The page id SLUG_TO_PAGE has for the slug the path names.
PagePathOfSlug(b) ==
    Slash \o b.cfg.SLUG_TO_PAGE[ObjOwn(b.cfg.SLUG_TO_PAGE, Slice1(b.path))].v.s

\* The path of the slug PAGE_TO_SLUG has for the page of the slug the path
\* names.
CanonicalSlugPath(b) ==
    LET pageId == b.cfg.SLUG_TO_PAGE[ObjOwn(b.cfg.SLUG_TO_PAGE, Slice1(b.path))].v.s
        slug == b.cfg.PAGE_TO_SLUG[ObjOwn(b.cfg.PAGE_TO_SLUG, pageId)].v
    IN IF slug.s = <<>> THEN Slash ELSE Slash \o slug.s

\* What every popstate after initialization does, to a known slug or not.
PopstateCommon(j) ==
    /\ browser' = updateUrlSlug(PopstateBypass(Restored(j)), TRUE)
    /\ Len(browser'.entries) = Len(browser.entries)
    /\ Len(PopstateBypass(Restored(j)).entries) = Len(browser.entries)
    /\ browser'.idx = j

\* C24 as claimed: on a popstate that restores a known slug's path the
\* pre-existing handler finds the path of the slug's page id, and when the
\* wrapper returns the visible path is the restored slug's path again; the
\* history keeps its length, and updateUrlSlug runs after the handler on every
\* popstate.
C24_PopstateRestoresSlug ==
    [][\A j \in 1..MaxHistory :
          (browser.init /\ PopState(j))
              => /\ PopstateCommon(j)
                 /\ OnKnownSlug(Restored(j))
                      => /\ PopstateBypass(Restored(j)).path = PagePathOfSlug(Restored(j))
                         /\ browser'.path = Restored(j).path]_vars

\* C24 amended: as above, but when the wrapper returns the visible path is
\* the path of the slug that PAGE_TO_SLUG holds for the page: the restored
\* slug, unless the page has another slug that is enumerated later.
C24_PopstateShowsCanonicalSlug ==
    [][\A j \in 1..MaxHistory :
          (browser.init /\ PopState(j))
              => /\ PopstateCommon(j)
                 /\ OnKnownSlug(Restored(j))
                      => /\ PopstateBypass(Restored(j)).path = PagePathOfSlug(Restored(j))
                         /\ browser'.path = CanonicalSlugPath(Restored(j))]_vars

\* After initialization the visitor has gone back to the first of two
\* entries, and the address bar shows a slug of the page that has two.
C24_Witness ==
    /\ browser.init
    /\ browser.idx = 1
    /\ browser.entries = <<Slash \o ApisSlug, Slash \o ApisSlug>>
    /\ ObjGet(browser.cfg.SLUG_TO_PAGE, AboutSlug) = Str(PageB)
    /\ ObjGet(browser.cfg.PAGE_TO_SLUG, PageB) = Str(ApisSlug)

(* ------------------------- the document's claims ---------------------- *)

\* Each wrapping and each listener registration has happened at most once,
\* and exactly once for the wrappings when the flag is set.
InitializedOnce ==
    /\ browser.doc.navWraps <= 1
    /\ browser.doc.xhrWraps <= 1
    /\ browser.doc.listeners <= 1
    /\ browser.doc.mediaListeners <= 1
    /\ browser.init => browser.doc.navWraps = 1 /\ browser.doc.xhrWraps = 1

\* The observer's callback has run in this step.
CallbackRuns == browser.doc.pending /\ ~browser'.doc.pending

\* C21: over the immediate attempt and any sequence of observer callbacks the
\* initialization body runs at most once: the history methods, onpopstate and
\* XMLHttpRequest open are wrapped at most once, the toggle has at most one
\* click listener, and a callback that runs when the flag is set changes
\* nothing (but the observer's queue, which it empties).
C21_InitializesAtMostOnce ==
    /\ []InitializedOnce
    /\ [][(browser.init /\ CallbackRuns)
            => browser' = [browser EXCEPT !.doc.pending = FALSE]]_vars

\* The script has initialized, the app has removed both top bars since, and
\* the callback for that mutation has run.
C21_Witness ==
    /\ browser.init
    /\ browser.doc.observing
    /\ ~browser.doc.pending
    /\ browser.doc.web = "none"
    /\ browser.doc.mobile = "none"

\* initializeDarkModeToggle passes its early returns in this step.
ToggleInitializes == ~browser.doc.toggleOk /\ browser'.doc.toggleOk

\* C25: when the toggle is initialized the mode is dark if the stored
\* preference is 'true', light if a preference with another value is stored,
\* and the OS preference when none is stored.
C25_InitialMode ==
    [][ToggleInitializes
         => /\ browser.doc.saved = "true" => browser'.doc.dark
            /\ browser.doc.saved \notin {"null", "true"} => ~browser'.doc.dark
            /\ browser.doc.saved = "null"
                 => browser'.doc.dark = browser.doc.prefersDark]_vars

\* The toggle has just been initialized (its own mutation is still to be
\* delivered) into the dark mode, against the OS preference.
C25_Witness ==
    /\ browser.doc.toggleOk
    /\ browser.doc.pending
    /\ browser.doc.dark
    /\ ~browser.doc.prefersDark
    /\ browser.doc.theme = "absent"

\* The stored preference is 'true' exactly when the body has the dark class.
StoredIsShown == (browser'.doc.saved = "true") = browser'.doc.dark

\* C26: a click on the toggle flips the body's dark class, stores 'true' or
\* 'false' accordingly and sets the mode of the theme store if there is one;
\* two clicks in a row bring back the class and the stored preference.
C26_ClickFlipsAndPersists ==
    /\ [][ToggleClick
            => /\ browser'.doc.dark = ~browser.doc.dark
               /\ StoredIsShown
               /\ browser'.doc.saved \in {"true", "false"}
               /\ browser.doc.theme # "absent"
                    => browser'.doc.theme = IF browser'.doc.dark THEN "dark"
                                            ELSE "light"
               /\ browser.doc.theme = "absent" => browser'.doc.theme = "absent"]_vars
    /\ [](browser.doc.toggleOk
            => LET twice == toggleDarkMode(toggleDarkMode(browser))
               IN /\ twice.doc.dark = browser.doc.dark
                  /\ twice.doc.saved = browser.doc.saved)

\* The theme store shows the dark mode while the OS prefers light and the
\* toggle's mutation has been delivered.
C26_Witness ==
    /\ browser.doc.toggleOk
    /\ ~browser.doc.pending
    /\ browser.doc.dark
    /\ browser.doc.theme = "dark"
    /\ browser.doc.toggle = "mobile"

\* C28: a resolved config without a slug mapping has empty derived fields,
\* and a request that rules 1-6 do not match is answered by neither a slug
\* redirect nor the outermost catch's 500: it goes on to the unknown-page-id
\* check and the content fetch.
C28_NoMappingIsEmptyMapping ==
    (last.valid /\ last.cfg.t = "object" /\ ~last.cfg.hasMap
     /\ ~RulesOneToSix(last.req))
        => /\ last.cfg.PAGE_TO_SLUG = <<>>
           /\ last.cfg.slugs = <<>>
           /\ last.cfg.pages = <<>>
           /\ last.resp.handler \in {"unknownPage", "html"}

\* C27: whenever the initialized flag is set, initializeDarkModeToggle has
\* attached the toggle and returned true.
C27_FlagMeansToggle == browser.init => browser.doc.toggleOk

\* C29: once the toggle is initialized, whatever clicks and color-scheme
\* changes follow, a preference is stored, the body has the dark class
\* exactly when the stored value is 'true', and a color-scheme change changes
\* neither.
C29_PreferenceAlwaysStored ==
    /\ [](browser.doc.toggleOk
            => /\ browser.doc.saved \in {"true", "false"}
               /\ browser.doc.dark = (browser.doc.saved = "true"))
    /\ [][(browser.doc.toggleOk /\ ColorSchemeChange)
            => /\ browser'.doc.dark = browser.doc.dark
               /\ browser'.doc.saved = browser.doc.saved]_vars

\* The toggle is initialized, its listener for color-scheme changes is
\* registered, and the OS prefers dark while the page is light.
C29_Witness ==
    /\ browser.doc.toggleOk
    /\ browser.doc.mediaListeners = 1
    /\ browser.doc.prefersDark
    /\ ~browser.doc.dark
    /\ browser.doc.saved = "false"

\* The navigation chrome is rendered: a desktop top bar with a grandchild or
\* a mobile top bar with a child.
ChromeRendered == browser.doc.web = "grandchild" \/ browser.doc.mobile = "child"

\* C30: when #notion-app exists as the script runs and the chrome is rendered
\* before the page unloads, the script initializes eventually; without
\* #notion-app at that moment it never initializes, whatever is rendered.
C30_InitializesWhenChromeRenders ==
    /\ (browser.doc.ran /\ browser.doc.root /\ ChromeRendered /\ ~browser.doc.unloaded)
           ~> browser.init
    /\ []((browser.doc.ran /\ ~browser.doc.root) => ~browser.init)

\* #notion-app was there as the script ran, and the script has initialized
\* on a mobile top bar.
C30_Witness ==
    /\ browser.init
    /\ browser.doc.root
    /\ browser.doc.toggle = "mobile"
    /\ browser.doc.web = "none"

====
